---- MODULE Spec2Model ----
(***************************************************************************)
(* The procurement dashboard of SCM.py as a state machine.                 *)
(*                                                                         *)
(* SCM.py is a Streamlit script: every user interaction (choosing a file   *)
(* in the uploader, removing it, changing a sidebar multiselect, moving    *)
(* the threshold slider) runs the whole script once, top to bottom,        *)
(* against the widgets' current values and st.session_state.  One action   *)
(* of this module is one such run.                                         *)
(*                                                                         *)
(* Block structure.  Lines 112-133 of SCM.py (the receipts comparison) are *)
(* written at column 0 while lines 136-163, which follow them, are         *)
(* indented as part of the `else:` block of line 32.  The statements are   *)
(* modelled in their textual order with lines 33-163 all forming the body  *)
(* of that `else:` block, which is the only block structure under which    *)
(* lines 136-163 have an enclosing block at all.                           *)
(*                                                                         *)
(* Cells.  A spreadsheet cell is a record [k, s, n]: k is its kind, s its  *)
(* text as a sequence of tokens (text cells), n its number (numeric cells) *)
(* or its instant in half-days (timestamps).  A column name is a sequence  *)
(* of tokens too; the token " " is whitespace.                             *)
(***************************************************************************)
EXTENDS Integers, Sequences, FiniteSets, TLC

\* ------------------------------------------------------------------ bounds

\* Rows per uploaded sheet.
MaxRows == 2
\* Required or optional columns a sheet of the schema corpus may lack.
MaxMissing == 2

\* ------------------------------------------------------------------- cells

NaN == [k |-> "nan", s |-> <<>>, n |-> 0]
NaT == [k |-> "nat", s |-> <<>>, n |-> 0]
Str(s) == [k |-> "str", s |-> s, n |-> 0]
Num(n) == [k |-> "num", s |-> <<>>, n |-> n]
\* A timestamp, in half-days since some epoch.
Ts(n) == [k |-> "ts", s |-> <<>>, n |-> n]
\* A text cell that spells the timestamp n.
DateText(n) == [k |-> "datetext", s |-> <<"date">>, n |-> n]

IsNa(c) == c.k \in {"nan", "nat"}

\* Half-days per day: timestamps carry a time of day.
HalfDaysPerDay == 2

\* ------------------------------------------------------------ column names

SalesOrderNo == "Sales Order No"
CustomerName == "Customer Name"
PONumber == "PO Number"
POTotalAmount == "PO Total Amount (EGP)"
InvoiceAmount == "Invoice Amount"
DeliveryDate == "Delivery Date"
PODate == "PO Date"
EstimatedDeliveryDate == "Estimated Delivery Date"
Quantity == "Quantity"
ReceivedQuantity == "Received Quantity"
Supplier == "Supplier"
\* The row label pandas keeps beside every row (the DataFrame's index).
Index == "index"

\* The list of line 27 without its last two names.
required_columns_without_quantities ==
    << <<SalesOrderNo>>, <<CustomerName>>, <<PONumber>>, <<POTotalAmount>>,
       <<InvoiceAmount>>, <<DeliveryDate>>, <<PODate>>,
       <<EstimatedDeliveryDate>> >>

\* The list of line 27, each name a one-token sequence.
required_columns ==
    << <<SalesOrderNo>>, <<CustomerName>>, <<PONumber>>, <<POTotalAmount>>,
       <<InvoiceAmount>>, <<DeliveryDate>>, <<PODate>>,
       <<EstimatedDeliveryDate>>, <<Quantity>>, <<ReceivedQuantity>> >>

date_columns == <<DeliveryDate, PODate, EstimatedDeliveryDate>>

Range(f) == {f[i] : i \in DOMAIN f}

\* str.strip of a column name: leading and trailing whitespace removed.
RECURSIVE LStrip(_)
LStrip(s) == IF s # <<>> /\ s[1] = " " THEN LStrip(Tail(s)) ELSE s

RECURSIVE RStrip(_)
RStrip(s) ==
    IF s # <<>> /\ s[Len(s)] = " " THEN RStrip(SubSeq(s, 1, Len(s) - 1)) ELSE s

Strip(s) == RStrip(LStrip(s))

\* Line 24 left out: the column names kept as the sheet spells them.
StripColumnsNot(columns) == columns

\* Line 24: df.columns = df.columns.str.strip()
StripColumns(columns) == {Strip(c) : c \in columns}

\* Line 28: the required names not among the columns, in the list's order.
MissingColumns(columns) ==
    SelectSeq(required_columns, LAMBDA col : col \notin columns)

\* --------------------------------------------------------------- read_excel

\* Line 21: the sheet as a DataFrame; pandas labels the rows 0, 1, 2, ...
ReadExcel(file) ==
    [columns |-> file.columns,
     rows |-> [i \in DOMAIN file.rows |-> file.rows[i] @@ (Index :> i - 1)]]

\* --------------------------------------------------------------- Normalizer

\* Series.str.contains(pat) on one text: pat occurs in s, case-sensitively.
Contains(s, pat) ==
    \E i \in 1..(Len(s) - Len(pat) + 1) : SubSeq(s, i, i + Len(pat) - 1) = pat

\* The literal of line 34.
SummaryMarker == <<"Summary">>

\* Line 34, one cell: str.contains('Summary', na=False). A cell that is not
\* text gives NaN, which na=False turns into False.
ContainsSummary(cell) == cell.k = "str" /\ Contains(cell.s, SummaryMarker)

\* Line 34, the .str accessor: pandas raises AttributeError unless the column
\* holds text (an object column with at least one string) or has no rows.
StrAccessorOK(rows) ==
    rows = <<>> \/ \E i \in DOMAIN rows : rows[i][SalesOrderNo].k = "str"

\* Line 34: df[~df['Sales Order No'].str.contains('Summary', na=False)]
RemoveSummary(rows) ==
    SelectSeq(rows, LAMBDA r : ~ContainsSummary(r[SalesOrderNo]))

\* Line 37 left out: rows without an order number kept.
DropNaNot(rows) == rows

\* Line 37: df.dropna(subset=["Sales Order No"])
DropNa(rows) == SelectSeq(rows, LAMBDA r : ~IsNa(r[SalesOrderNo]))

\* Line 43, one cell: pd.to_datetime(errors='coerce'). A timestamp stays, a
\* text that spells a date is parsed, anything else becomes NaT.
ToDatetime(cell) ==
    CASE cell.k = "ts" -> cell
      [] cell.k = "datetext" -> Ts(cell.n)
      [] cell.k \in {"str", "nan", "nat"} -> NaT

\* Lines 40-43: every date column that is present is converted.
ConvertDates(columns, rows) ==
    [i \in DOMAIN rows |->
        [col \in DOMAIN rows[i] |->
            IF col \in Range(date_columns) /\ <<col>> \in columns
            THEN ToDatetime(rows[i][col])
            ELSE rows[i][col]]]

\* Lines 34-43 on a DataFrame whose columns passed line 30.
Normalize(df) ==
    [columns |-> df.columns,
     rows |-> ConvertDates(df.columns, DropNa(RemoveSummary(df.rows)))]

\* ------------------------------------------------------------ Filter Engine

\* Series.unique(): the distinct cells in order of first appearance.
RECURSIVE UniqueAcc(_, _, _)
UniqueAcc(rows, col, acc) ==
    IF rows = <<>> THEN acc
    ELSE UniqueAcc(Tail(rows), col,
                   IF Head(rows)[col] \in Range(acc) THEN acc
                   ELSE Append(acc, Head(rows)[col]))

Unique(rows, col) == UniqueAcc(rows, col, <<>>)

\* The row labelled `label` (DataFrame.loc on a unique index).
Loc(rows, label) == CHOOSE r \in Range(rows) : r[Index] = label

\* A filter that selects by position where it should select by label:
\* filtered_df.iloc[labels of the matching rows]; a position past the end
\* selects nothing.
FilterByIloc(rows, col, accepted) ==
    IF accepted = {} THEN rows
    ELSE LET hit == {r[Index] + 1 : r \in {q \in Range(rows) : q[col] \in accepted}}
             at == SelectSeq([i \in DOMAIN rows |-> i], LAMBDA i : i \in hit)
         IN  [j \in DOMAIN at |-> rows[at[j]]]

\* Lines 57-62, one filter: a non-empty selection keeps the rows whose cell
\* is selected (Series.isin); an empty selection keeps every row.
FilterBy(rows, col, accepted) ==
    IF accepted = {} THEN rows
    ELSE SelectSeq(rows, LAMBDA r : r[col] \in accepted)

\* Line 62 applied to df instead of filtered_df: the supplier filter forgets
\* the two filters before it.
ApplyFiltersFromDf(rows, sel) ==
    IF sel.supplier = {}
    THEN FilterBy(FilterBy(rows, SalesOrderNo, sel.sales_order_no),
                  CustomerName, sel.customer_name)
    ELSE FilterBy(rows, Supplier, sel.supplier)

\* Lines 55-62: filtered_df.
ApplyFilters(rows, sel) ==
    FilterBy(FilterBy(FilterBy(rows, SalesOrderNo, sel.sales_order_no),
                      CustomerName, sel.customer_name),
             Supplier, sel.supplier)

\* ------------------------------------------------------- Metrics Aggregator

\* Series.sum() of a numeric column: empty cells are skipped.
RECURSIVE SumCol(_, _)
SumCol(rows, col) ==
    IF rows = <<>> THEN 0
    ELSE (IF Head(rows)[col].k = "num" THEN Head(rows)[col].n ELSE 0)
         + SumCol(Tail(rows), col)

\* The keys of DataFrame.groupby(col): the distinct cells, empty ones dropped.
GroupKeys(rows, col) == {r[col] : r \in Range(rows)} \ {NaN}

\* One group of DataFrame.groupby(col).
Group(rows, col, key) == SelectSeq(rows, LAMBDA r : r[col] = key)

\* Line 74, one row: (Estimated Delivery Date - Delivery Date).dt.days, the
\* whole days of the difference (rounded down); NaN when either date is NaT.
HasDays(r) == r[EstimatedDeliveryDate].k = "ts" /\ r[DeliveryDate].k = "ts"

Days(r) == (r[EstimatedDeliveryDate].n - r[DeliveryDate].n) \div HalfDaysPerDay

\* Line 74 with >= for >.
ExceedsOrMeets(r, delay_threshold) == HasDays(r) /\ Days(r) >= delay_threshold

\* Line 74: the comparison with the threshold; NaN > n is False.
Exceeds(r, delay_threshold) == HasDays(r) /\ Days(r) > delay_threshold

\* Lines 73-75: delayed_shipments.
DelayedShipments(rows, delay_threshold) ==
    SelectSeq(rows, LAMBDA r : Exceeds(r, delay_threshold))

\* Line 81: the alert's bound.
AlertAbove == 5

\* Line 91 with < for <=.
OnTimeStrict(x, est) == x.k = "ts" /\ est.k = "ts" /\ x.n < est.n

\* Line 91, one pair: x <= estimated; a comparison with NaT is False.
OnTime(x, est) == x.k = "ts" /\ est.k = "ts" /\ x.n <= est.n

\* Line 92, one pair: x > estimated; a comparison with NaT is False.
Late(x, est) == x.k = "ts" /\ est.k = "ts" /\ x.n > est.n

\* Line 91: the lambda over one group's Delivery Date series x. Each delivery
\* date is compared with the estimated date that filtered_df holds under the
\* same row label: filtered_df.loc[x.index, ...].
OnTimeDeliveries(group, filtered) ==
    Len(SelectSeq(group,
        LAMBDA r : OnTime(r[DeliveryDate],
                          Loc(filtered, r[Index])[EstimatedDeliveryDate])))

\* Line 92: the same lambda with > for <=.
DelayedDeliveries(group, filtered) ==
    Len(SelectSeq(group,
        LAMBDA r : Late(r[DeliveryDate],
                        Loc(filtered, r[Index])[EstimatedDeliveryDate])))

\* Line 95: (on_time_deliveries / total_orders) * 100 in floating point. A
\* zero divisor raises nothing: the quotient is NaN for 0/0 and inf for n/0.
\* A finite rate is kept as the exact fraction num/den.
Rate(on_time_deliveries, total_orders) ==
    IF total_orders = 0
    THEN [kind |-> IF on_time_deliveries = 0 THEN "NaN" ELSE "inf",
          num |-> 0, den |-> 1]
    ELSE [kind |-> "finite", num |-> on_time_deliveries * 100,
          den |-> total_orders]

\* Lines 88-95: supplier_performance, one row per supplier of filtered_df.
SupplierPerformance(filtered) ==
    [key \in GroupKeys(filtered, Supplier) |->
        LET g == Group(filtered, Supplier, key)
            total_orders == Cardinality(GroupKeys(g, PONumber))
            on_time == OnTimeDeliveries(g, filtered)
        IN  [total_orders |-> total_orders,
             total_procurement |-> SumCol(g, POTotalAmount),
             on_time_deliveries |-> on_time,
             delayed_deliveries |-> DelayedDeliveries(g, filtered),
             rate |-> Rate(on_time, total_orders)]]

\* Line 108 before nlargest: PO amount summed per customer.
CustomerTotals(filtered) ==
    [key \in GroupKeys(filtered, CustomerName) |->
        SumCol(Group(filtered, CustomerName, key), POTotalAmount)]

\* Line 115: the columns the receipts comparison asks for.
ReceiptsColumnsPresent(columns) ==
    \A col \in {PONumber, Quantity, ReceivedQuantity} : <<col>> \in columns

\* Line 123 with the operands exchanged.
DifferenceSwapped(total_quantity, total_received) ==
    total_received - total_quantity

\* Line 123: Difference.
Difference(total_quantity, total_received) == total_quantity - total_received

\* Lines 117-123: receipts_vs_quantity, one row per PO number.
ReceiptsVsQuantity(filtered) ==
    [key \in GroupKeys(filtered, PONumber) |->
        LET g == Group(filtered, PONumber, key)
            total_quantity == SumCol(g, Quantity)
            total_received == SumCol(g, ReceivedQuantity)
        IN  [total_quantity |-> total_quantity,
             total_received |-> total_received,
             Difference |-> Difference(total_quantity, total_received)]]

\* Line 129: mismatches, the rows whose Difference is not 0.
Mismatches(receipts_vs_quantity) ==
    [key \in {po \in DOMAIN receipts_vs_quantity :
                 receipts_vs_quantity[po].Difference # 0}
        |-> receipts_vs_quantity[key]]

\* Lines 142-147: the three summary metrics.
SummaryMetrics(filtered) ==
    [total_sales_orders |-> Len(Unique(filtered, SalesOrderNo)),
     total_po_amount |-> SumCol(filtered, POTotalAmount),
     delayed_count |->
        Len(SelectSeq(filtered,
            LAMBDA r : Late(r[DeliveryDate], r[EstimatedDeliveryDate])))]

\* --------------------------------------------------------------- the script

\* Python's None, and a held value.
None == <<>>
Some(x) == <<x>>

\* Line 72: st.sidebar.slider("Set Delay Threshold (Days)", 0, 90, 30)
SliderMin == 0
SliderMax == 90
SliderDefault == 30

NoOptions ==
    [sales_order_no |-> <<>>, customer_name |-> <<>>, supplier |-> <<>>]
NoSelection == [sales_order_no |-> {}, customer_name |-> {}, supplier |-> {}]
NoMetrics == [total_sales_orders |-> 0, total_po_amount |-> 0, delayed_count |-> 0]

\* A multiselect keeps its selection from one run to the next while it is
\* drawn with the same options; drawn with other options, or not drawn in
\* the run before, it starts empty (lines 50-52: no default is given).
Multiselect(options, w, name) ==
    IF options = w.options[name] THEN w.selection[name] ELSE {}

\* Line 46 guarded like line 16: the Table is stored only while none is held.
StoreOnce(session, df) == IF session = None THEN Some(df) ELSE session

\* Line 46: st.session_state['df'] = df
Store(session, df) == Some(df)

\* What a run leaves when it stops before line 50: nothing is drawn but the
\* messages, and the widgets that were not drawn lose their values.
Stopped(session, missing, fault, ran, messages) ==
    [session_df |-> session, missing_columns |-> missing, fault |-> fault,
     ran |-> ran, messages |-> messages,
     options |-> NoOptions, selection |-> NoSelection,
     delay_threshold |-> SliderDefault,
     filtered_df |-> <<>>, delayed_shipments |-> <<>>,
     supplier_performance |-> <<>>, customer_totals |-> <<>>,
     receipts_vs_quantity |-> <<>>, mismatches |-> <<>>,
     metrics |-> NoMetrics]

\* Lines 48-163 on the normalized df: the sidebar, the filters and the
\* metrics. w holds the widgets' values of the run before.
Dashboard(df, w) ==
    LET options == [sales_order_no |-> Unique(df.rows, SalesOrderNo),
                    customer_name |-> Unique(df.rows, CustomerName),
                    supplier |-> Unique(df.rows, Supplier)]
        selection == [name \in DOMAIN options |->
                         Multiselect(options[name], w, name)]
        filtered == ApplyFilters(df.rows, selection)
        delayed == DelayedShipments(filtered, w.delay_threshold)
        receipts == ReceiptsColumnsPresent(df.columns)
        rvq == IF receipts THEN ReceiptsVsQuantity(filtered) ELSE <<>>
    IN  [session_df |-> Store(w.session_df, df),
         missing_columns |-> <<>>, fault |-> "none",
         ran |-> {"normalize", "filter", "delay", "supplier_performance",
                  "top_n", "summary", "export"}
                 \cup (IF receipts THEN {"receipts"} ELSE {}),
         messages |-> (IF Len(delayed) > AlertAbove THEN {"DelayAlert"} ELSE {})
                      \cup (IF receipts THEN {} ELSE {"ReceiptsColumnsMissing"}),
         options |-> options, selection |-> selection,
         delay_threshold |-> w.delay_threshold,
         filtered_df |-> filtered, delayed_shipments |-> delayed,
         supplier_performance |-> SupplierPerformance(filtered),
         customer_totals |-> CustomerTotals(filtered),
         receipts_vs_quantity |-> rvq,
         mismatches |-> IF receipts THEN Mismatches(rvq) ELSE <<>>,
         metrics |-> SummaryMetrics(filtered)]

\* Lines 50-52 when the sheet has no Supplier column: the first two
\* multiselects are drawn, then df["Supplier"] raises KeyError. Line 46 has
\* already run.
NoSupplier(df, w) ==
    LET options == [sales_order_no |-> Unique(df.rows, SalesOrderNo),
                    customer_name |-> Unique(df.rows, CustomerName),
                    supplier |-> <<>>]
        stopped == Stopped(Store(w.session_df, df), <<>>, "KeyError",
                           {"normalize"}, {})
    IN  [stopped EXCEPT
            !.options = options,
            !.selection = [name \in DOMAIN options |->
                              Multiselect(options[name], w, name)]]

\* One run of the script, lines 13-163. file is what the uploader holds;
\* w the session's Table and the widgets' values before the run.
Script(file, w) ==
    IF file = None
    THEN Stopped(w.session_df, <<>>, "none", {}, {})
    ELSE
    LET raw == ReadExcel(file[1])
        columns == StripColumns(raw.columns)
        missing_columns == MissingColumns(columns)
    IN  IF missing_columns # <<>>
        THEN Stopped(w.session_df, missing_columns, "none", {},
                     {"MissingColumns"})
        ELSE IF ~StrAccessorOK(raw.rows)
        THEN Stopped(w.session_df, <<>>, "AttributeError", {}, {})
        ELSE LET df == Normalize([columns |-> columns, rows |-> raw.rows])
             IN  IF <<Supplier>> \in columns
                 THEN Dashboard(df, w)
                 ELSE NoSupplier(df, w)

\* ------------------------------------------------------ the sheets uploaded

\* The columns of a complete export.
AllColumns ==
    {<<SalesOrderNo>>, <<CustomerName>>, <<Supplier>>, <<PONumber>>,
     <<POTotalAmount>>, <<InvoiceAmount>>, <<DeliveryDate>>, <<PODate>>,
     <<EstimatedDeliveryDate>>, <<Quantity>>, <<ReceivedQuantity>>}

\* A sheet's row, one cell per column.
Row(so, cust, sup, po, amt, del, est, qty, rec) ==
    (SalesOrderNo :> so) @@ (CustomerName :> cust) @@ (Supplier :> sup)
    @@ (PONumber :> po) @@ (POTotalAmount :> amt) @@ (InvoiceAmount :> amt)
    @@ (DeliveryDate :> del) @@ (PODate :> Ts(0))
    @@ (EstimatedDeliveryDate :> est)
    @@ (Quantity :> qty) @@ (ReceivedQuantity :> rec)

Text(t) == Str(<<t>>)
\* The instant d days after the epoch.
Day(d) == Ts(d * HalfDaysPerDay)

PlainRow == Row(Text("SO1"), Text("C1"), Text("A"), Text("P1"), Num(100),
                Day(0), Day(0), Num(10), Num(10))

\* Every sheet of at most MaxRows rows drawn from rowset.
Sheets(rowset) == UNION {[1..n -> rowset] : n \in 0..MaxRows}

\* Order numbers: text, a number, none, a footer row, a lower-case footer.
OrderRows ==
    {[PlainRow EXCEPT ![SalesOrderNo] = so] :
        so \in {Text("SO1"), Num(7), NaN,
                Str(<<"Grand", " ", "Summary">>), Text("summary")}}

\* Orders that differ in what the three filters select on.
FilterRows ==
    {[PlainRow EXCEPT ![SalesOrderNo] = Text(f[1]), ![CustomerName] = Text(f[2]),
                      ![Supplier] = Text(f[3])] :
        f \in {<<"SO1", "C1", "A">>, <<"SO1", "C2", "B">>,
               <<"SO2", "C1", "B">>, <<"SO2", "C2", "A">>}}

\* Delivery and estimated dates: 15 days early (the delivery date a text),
\* 5 and exactly 10 days early, ten days and a half early, 15 days late, and
\* a text that is no date on either side.
DelayRows ==
    {[PlainRow EXCEPT ![DeliveryDate] = d[1], ![EstimatedDeliveryDate] = d[2]] :
        d \in {<<DateText(0), Day(15)>>, <<Day(0), Day(5)>>, <<Day(0), Day(10)>>,
               <<Day(0), Ts(10 * HalfDaysPerDay + 1)>>, <<Day(15), Day(0)>>,
               <<Text("n/a"), Day(15)>>, <<Day(0), Text("n/a")>>}}

\* Suppliers' deliveries: on the day, late on the same and on another PO,
\* early, without a PO number, without a readable date, without a supplier.
SupplierRows ==
    {[PlainRow EXCEPT ![Supplier] = k[1], ![PONumber] = k[2],
                      ![DeliveryDate] = k[3], ![EstimatedDeliveryDate] = k[4]] :
        k \in {<<Text("A"), Text("P1"), Day(1), Day(1)>>,
               <<Text("A"), Text("P1"), Day(2), Day(1)>>,
               <<Text("A"), Text("P2"), Day(2), Day(1)>>,
               <<Text("B"), Text("P1"), Day(0), Day(1)>>,
               <<Text("A"), NaN, Day(1), Day(1)>>,
               <<Text("A"), Text("P1"), Text("n/a"), Day(1)>>,
               <<NaN, Text("P1"), Day(1), Day(1)>>}}

\* PO lines: received in full, short, over, no quantity, no PO number.
ReceiptRows ==
    {[PlainRow EXCEPT ![PONumber] = k[1], ![Quantity] = k[2],
                      ![ReceivedQuantity] = k[3]] :
        k \in {<<Text("X1"), Num(10), Num(10)>>, <<Text("X1"), Num(5), Num(3)>>,
               <<Text("X1"), Num(3), Num(5)>>, <<Text("X2"), Num(3), Num(5)>>,
               <<Text("X1"), NaN, Num(3)>>, <<NaN, Num(5), Num(3)>>}}

\* Column names as the sheet spells them: bare, or with whitespace around.
Spellings == {"bare", "padded"}
Spell(how, name) == IF how = "padded" THEN <<" ">> \o name \o <<" ">> ELSE name

\* A sheet with every column but those in lacking.
Sheet(lacking, how, rows) ==
    [columns |-> {Spell(how, c) : c \in AllColumns \ lacking}, rows |-> rows]

\* A session's user: the two kinds of rows their sheets are made of, or,
\* with no kinds, the columns their export sometimes lacks.
RowUsers(rowset) ==
    {[kinds |-> pair, lacking |-> {}] :
        pair \in {a \in SUBSET rowset : Cardinality(a) = 2}}

SchemaUsers ==
    {[kinds |-> {}, lacking |-> d] :
        d \in {d \in SUBSET AllColumns : d # {} /\ Cardinality(d) <= MaxMissing}}

Corpora ==
    SchemaUsers \cup RowUsers(OrderRows) \cup RowUsers(FilterRows)
    \cup RowUsers(DelayRows) \cup RowUsers(SupplierRows)
    \cup RowUsers(ReceiptRows)

\* The sheets a user uploads from. With kinds: every sheet of at most MaxRows
\* rows of those kinds, with every column. Without: complete sheets (one with
\* a numeric order column, one spelled with whitespace) and sheets that lack
\* the user's lacking columns.
Files(user) ==
    IF user.kinds # {}
    THEN {Sheet({}, "bare", rows) : rows \in Sheets(user.kinds)}
    ELSE {Sheet({}, "bare", <<PlainRow>>),
          Sheet({}, "bare", <<[PlainRow EXCEPT ![SalesOrderNo] = Num(7)]>>),
          Sheet({}, "padded", <<[PlainRow EXCEPT ![SalesOrderNo] = Text("SO2")]>>),
          Sheet(user.lacking, "bare", <<PlainRow>>),
          Sheet(user.lacking, "padded", <<PlainRow>>)}

\* The slider positions tried.
Thresholds == {SliderMin, 10, SliderDefault, SliderMax}

\* -------------------------------------------------------------------- state

VARIABLES
    corpus,                 \* whose session this is: Files(corpus) are their sheets
    uploaded_file,          \* line 13: what the uploader holds, or None
    session_df,             \* st.session_state['df']
    options,                \* the options the multiselects were drawn with
    selection,              \* sales_order_no, customer_name, supplier (50-52)
    delay_threshold,        \* line 72
    missing_columns,        \* line 28
    fault,                  \* the exception that ended the run, or "none"
    ran,                    \* the stages of the pipeline the run went through
    messages,               \* st.error / st.warning shown by the run
    filtered_df,            \* lines 55-62
    delayed_shipments,      \* lines 73-75
    supplier_performance,   \* lines 88-95
    customer_totals,        \* line 108
    receipts_vs_quantity,   \* lines 117-123
    mismatches,             \* line 129
    metrics                 \* lines 142-147

vars == <<corpus, uploaded_file, session_df, options, selection,
          delay_threshold, missing_columns, fault, ran, messages, filtered_df,
          delayed_shipments, supplier_performance, customer_totals,
          receipts_vs_quantity, mismatches, metrics>>

\* The session's Table and the widgets' values, as a run finds them.
Widgets ==
    [session_df |-> session_df, options |-> options, selection |-> selection,
     delay_threshold |-> delay_threshold]

\* The page and the session after one run of the script.
Shows(file, page) ==
    /\ uploaded_file' = file
    /\ session_df' = page.session_df
    /\ options' = page.options
    /\ selection' = page.selection
    /\ delay_threshold' = page.delay_threshold
    /\ missing_columns' = page.missing_columns
    /\ fault' = page.fault
    /\ ran' = page.ran
    /\ messages' = page.messages
    /\ filtered_df' = page.filtered_df
    /\ delayed_shipments' = page.delayed_shipments
    /\ supplier_performance' = page.supplier_performance
    /\ customer_totals' = page.customer_totals
    /\ receipts_vs_quantity' = page.receipts_vs_quantity
    /\ mismatches' = page.mismatches
    /\ metrics' = page.metrics
    /\ UNCHANGED corpus

\* Lines 15-17 in a new session of one of users: no file, no Table, nothing
\* drawn.
Start(users) ==
    /\ corpus \in users
    /\ uploaded_file = None
    /\ session_df = None
    /\ options = NoOptions
    /\ selection = NoSelection
    /\ delay_threshold = SliderDefault
    /\ missing_columns = <<>>
    /\ fault = "none"
    /\ ran = {}
    /\ messages = {}
    /\ filtered_df = <<>>
    /\ delayed_shipments = <<>>
    /\ supplier_performance = <<>>
    /\ customer_totals = <<>>
    /\ receipts_vs_quantity = <<>>
    /\ mismatches = <<>>
    /\ metrics = NoMetrics

\* One run of the script with file in the uploader and the widgets at w.
Rerun(file, w) == \E page \in {Script(file, w)} : Shows(file, page)

\* The user puts a sheet in the uploader.
Upload(file) ==
    /\ Some(file) # uploaded_file
    /\ Rerun(Some(file), Widgets)

\* The user removes the sheet from the uploader.
ClearUpload ==
    /\ uploaded_file # None
    /\ Rerun(None, Widgets)

\* The user changes what one of the multiselects that are drawn selects.
ChangeFilter(name, chosen) ==
    /\ "normalize" \in ran
    /\ chosen # selection[name]
    /\ Rerun(uploaded_file, [Widgets EXCEPT !.selection[name] = chosen])

\* The user moves the threshold slider.
ChangeThreshold(days) ==
    /\ "delay" \in ran
    /\ days # delay_threshold
    /\ Rerun(uploaded_file, [Widgets EXCEPT !.delay_threshold = days])

Next ==
    \/ \E file \in Files(corpus) : Upload(file)
    \/ ClearUpload
    \/ \E name \in DOMAIN options :
        \E chosen \in SUBSET Range(options[name]) : ChangeFilter(name, chosen)
    \/ \E days \in Thresholds : ChangeThreshold(days)

\* Any user's session.
Init == Start(Corpora)
Spec == Init /\ [][Next]_vars

\* The sessions of the users whose export may lack columns.
InitSchema == Start(SchemaUsers)
SpecSchema == InitSchema /\ [][Next]_vars

\* The sessions of the users whose sheets vary in the order numbers.
InitOrders == Start(RowUsers(OrderRows))
SpecOrders == InitOrders /\ [][Next]_vars

\* The sessions of the users whose sheets vary in what the filters select on.
InitFilters == Start(RowUsers(FilterRows))
SpecFilters == InitFilters /\ [][Next]_vars

\* The sessions of the users whose sheets vary in the delivery dates.
InitDelays == Start(RowUsers(DelayRows))
SpecDelays == InitDelays /\ [][Next]_vars

\* The sessions of the users whose sheets vary in suppliers and PO numbers.
InitSuppliers == Start(RowUsers(SupplierRows))
SpecSuppliers == InitSuppliers /\ [][Next]_vars

\* The sessions of the users whose sheets vary in the quantities.
InitReceipts == Start(RowUsers(ReceiptRows))
SpecReceipts == InitReceipts /\ [][Next]_vars

\* ------------------------------------------------------------------- claims

\* The uploaded sheet's schema once trimmed, and the required names not in it.
TrimmedSchema == {Strip(c) : c \in uploaded_file[1].columns}
Absent == {c \in Range(required_columns) : c \notin TrimmedSchema}

\* The uploaded sheet's row that pandas labels `label`.
RawRow(label) == uploaded_file[1].rows[label + 1]

\* A date cell that to_datetime can read.
Parseable(cell) == cell.k \in {"ts", "datetext"}
BothParseable(r) ==
    Parseable(r[EstimatedDeliveryDate]) /\ Parseable(r[DeliveryDate])

\* The sum of f over the positions in S.
RECURSIVE SumOver(_, _)
SumOver(f, S) ==
    IF S = {} THEN 0
    ELSE LET i == CHOOSE j \in S : TRUE IN f[i] + SumOver(f, S \ {i})

\* The number in a cell, an empty cell counting for nothing.
Amount(cell) == IF cell.k = "num" THEN cell.n ELSE 0

\* C1: for every uploaded Table the Schema Validator returns exactly the
\* required column names absent from the Table's trimmed schema, all together;
\* whenever that set is not empty the pipeline halts: the error is shown and
\* no normalization, filtering or aggregation step runs for that upload.
C1_MissingColumnsExactAndHalt ==
    uploaded_file # None =>
        /\ Range(missing_columns) = Absent
        /\ Len(missing_columns) = Cardinality(Absent)
        /\ Absent # {} =>
            /\ "MissingColumns" \in messages
            /\ ran = {}
            /\ filtered_df = <<>> /\ delayed_shipments = <<>>
            /\ supplier_performance = <<>> /\ receipts_vs_quantity = <<>>
            /\ mismatches = <<>> /\ metrics = NoMetrics

\* C1's case: a sheet spelled with whitespace around its names lacks two
\* required columns, both are reported and nothing ran.
C1_Witness ==
    /\ uploaded_file # None
    /\ \E c \in uploaded_file[1].columns : Strip(c) # c
    /\ Len(missing_columns) = 2
    /\ ran = {}

\* An order number that is missing or marks a summary row.
Excluded(cell) ==
    cell.k = "nan" \/ (cell.k = "str" /\ \E i \in DOMAIN cell.s : cell.s[i] = "Summary")

Passes(r) ==
    /\ selection.sales_order_no = {} \/ r[SalesOrderNo] \in selection.sales_order_no
    /\ selection.customer_name = {} \/ r[CustomerName] \in selection.customer_name
    /\ selection.supplier = {} \/ r[Supplier] \in selection.supplier

\* C3: the Filter Engine returns exactly the records of the normalized Table
\* that, for each of the three filterable attributes with a non-empty
\* accepted-value set, have that attribute's value in the set; an empty
\* FilterSpec returns the Table's records unchanged.
C3_FilterReturnsExactlyMatching ==
    "filter" \in ran =>
        /\ filtered_df = SelectSeq(session_df[1].rows, Passes)
        /\ selection = NoSelection => filtered_df = session_df[1].rows

\* C3's case: two of the three sets are non-empty and the filter kept one of
\* the Table's two records.
C3_Witness ==
    /\ "filter" \in ran
    /\ selection.sales_order_no # {}
    /\ selection.supplier # {}
    /\ Len(session_df[1].rows) = 2
    /\ Len(filtered_df) = 1

\* C9: the Filter Engine is idempotent: applying the same FilterSpec to the
\* already-filtered result returns a Table identical to that result.
C9_FilterIdempotent ==
    "filter" \in ran => ApplyFilters(filtered_df, selection) = filtered_df

\* C9's case: a customer filter that dropped a record and kept another.
C9_Witness ==
    /\ "filter" \in ran
    /\ selection.customer_name # {}
    /\ filtered_df # <<>>
    /\ Len(filtered_df) < Len(session_df[1].rows)

\* The records of filtered_df that belong to supplier s.
RecordsOf(s) == {i \in DOMAIN filtered_df : filtered_df[i][Supplier] = s}

\* C4: for every supplier group of the filtered Table the on-time rate
\* (on_time_deliveries / total_orders * 100) is in [0, 100], and is exactly 0,
\* not an undefined value, when total_orders = 0.
C4_RateWithinZeroAndHundred ==
    "supplier_performance" \in ran =>
        \A s \in DOMAIN supplier_performance :
            LET kpi == supplier_performance[s]
            IN  /\ kpi.rate.kind = "finite"
                /\ 0 <= kpi.rate.num
                /\ kpi.rate.num <= 100 * kpi.rate.den
                /\ kpi.total_orders = 0 => kpi.rate.num = 0

\* C5: for every filtered Table and threshold of the slider, a record is in
\* delayed_shipments if and only if both its estimated and its actual delivery
\* date are parseable and the estimated date minus the delivery date, in whole
\* days, is strictly greater than the threshold.
C5_DelayedIffBeyondThreshold ==
    "delay" \in ran =>
        /\ delay_threshold \in SliderMin..SliderMax
        /\ Range(delayed_shipments) \subseteq Range(filtered_df)
        /\ \A i \in DOMAIN filtered_df :
            LET raw == RawRow(filtered_df[i][Index])
            IN  filtered_df[i] \in Range(delayed_shipments)
                <=> /\ BothParseable(raw)
                    /\ raw[EstimatedDeliveryDate].n - raw[DeliveryDate].n
                         >= (delay_threshold + 1) * HalfDaysPerDay

\* The days between a sheet row's estimated and actual delivery, both dates
\* parseable and the difference a whole number of days.
DaysEarly(raw, days) ==
    /\ BothParseable(raw)
    /\ raw[EstimatedDeliveryDate].n - raw[DeliveryDate].n = days * HalfDaysPerDay

\* C5's case: at threshold 10 a record 15 days early is in delayed_shipments
\* and a record 5 days early is in filtered_df but not in delayed_shipments.
C5_Witness ==
    /\ "delay" \in ran
    /\ delay_threshold = 10
    /\ \E r \in Range(delayed_shipments) : DaysEarly(RawRow(r[Index]), 15)
    /\ \E r \in Range(filtered_df) \ Range(delayed_shipments) :
        DaysEarly(RawRow(r[Index]), 5)

\* The positions of filtered_df that belong to PO number po.
LinesOf(po) == {i \in DOMAIN filtered_df : filtered_df[i][PONumber] = po}

\* C7: there is one reconciliation row per distinct PO number of the filtered
\* Table; its total_quantity and total_received are the sums of Quantity and
\* Received Quantity over that PO's records, its Difference is total_quantity
\* minus total_received, and the PO is in mismatches iff its Difference is
\* not zero.
C7_ReconciliationPerPO ==
    "receipts" \in ran =>
        LET quantity == [i \in DOMAIN filtered_df |-> Amount(filtered_df[i][Quantity])]
            received == [i \in DOMAIN filtered_df |->
                            Amount(filtered_df[i][ReceivedQuantity])]
        IN  /\ DOMAIN receipts_vs_quantity
                 = {filtered_df[i][PONumber] : i \in DOMAIN filtered_df} \ {NaN}
            /\ \A po \in DOMAIN receipts_vs_quantity :
                LET row == receipts_vs_quantity[po]
                IN  /\ row.total_quantity = SumOver(quantity, LinesOf(po))
                    /\ row.total_received = SumOver(received, LinesOf(po))
                    /\ row.Difference = row.total_quantity - row.total_received
                    /\ po \in DOMAIN mismatches <=> row.Difference # 0
            /\ \A po \in DOMAIN mismatches :
                /\ po \in DOMAIN receipts_vs_quantity
                /\ mismatches[po] = receipts_vs_quantity[po]

\* C7's case: PO X1 with lines (10, received 10) and (5, received 3) has the
\* row 15, 13, 2 and is a mismatch.
C7_Witness ==
    /\ "receipts" \in ran
    /\ Str(<<"X1">>) \in DOMAIN receipts_vs_quantity
    /\ receipts_vs_quantity[Str(<<"X1">>)]
         = [total_quantity |-> 15, total_received |-> 13, Difference |-> 2]
    /\ Str(<<"X1">>) \in DOMAIN mismatches

\* C8: for every supplier present in the filtered Table, on_time_deliveries
\* is the number of its records delivered on or before the estimated date and
\* delayed_deliveries the number delivered strictly after it; a record with an
\* unparseable date on either side counts in neither, so the two never add up
\* to more than the supplier's records, and add up to them when every date of
\* the supplier is parseable.
C8_OnTimeAndDelayedCounts ==
    "supplier_performance" \in ran =>
        LET raw(i) == RawRow(filtered_df[i][Index])
            onTime(s) == {i \in RecordsOf(s) :
                            /\ BothParseable(raw(i))
                            /\ raw(i)[DeliveryDate].n <= raw(i)[EstimatedDeliveryDate].n}
            late(s) == {i \in RecordsOf(s) :
                            /\ BothParseable(raw(i))
                            /\ raw(i)[DeliveryDate].n > raw(i)[EstimatedDeliveryDate].n}
        IN  /\ DOMAIN supplier_performance
                 = {filtered_df[i][Supplier] : i \in DOMAIN filtered_df} \ {NaN}
            /\ \A s \in DOMAIN supplier_performance :
                LET kpi == supplier_performance[s]
                IN  /\ kpi.on_time_deliveries = Cardinality(onTime(s))
                    /\ kpi.delayed_deliveries = Cardinality(late(s))
                    /\ kpi.on_time_deliveries + kpi.delayed_deliveries
                         <= Cardinality(RecordsOf(s))
                    /\ (\A i \in RecordsOf(s) : BothParseable(raw(i)))
                         => kpi.on_time_deliveries + kpi.delayed_deliveries
                              = Cardinality(RecordsOf(s))

\* C8's case: a supplier with one delivery on the estimated day and one late.
C8_Witness ==
    /\ "supplier_performance" \in ran
    /\ \E s \in DOMAIN supplier_performance :
        /\ supplier_performance[s].on_time_deliveries = 1
        /\ supplier_performance[s].delayed_deliveries = 1
        /\ \E i \in RecordsOf(s) :
            filtered_df[i][DeliveryDate] = filtered_df[i][EstimatedDeliveryDate]

\* The quantity columns, and those of them the uploaded sheet lacks.
QuantityColumns == {<<Quantity>>, <<ReceivedQuantity>>}
QuantityAbsent == QuantityColumns \ TrimmedSchema

\* C6 as claimed: when the Quantity / Received Quantity columns are absent
\* from the uploaded Table, only the reconciliation is skipped and its own
\* error message shown, while delay detection, supplier performance, top-N
\* and the summary metrics still run.
C6_OnlyReconciliationSkipped ==
    (uploaded_file # None /\ Absent # {} /\ Absent \subseteq QuantityColumns) =>
        /\ "receipts" \notin ran
        /\ "ReceiptsColumnsMissing" \in messages
        /\ {"delay", "supplier_performance", "top_n", "summary"} \subseteq ran

\* C6 amended: when Quantity or Received Quantity is absent from the uploaded
\* Table, the Schema Validator reports it among the missing columns and the
\* whole pipeline halts: neither the reconciliation nor any other
\* sub-computation runs, and the reconciliation's own error message is not
\* shown.
C6_QuantityAbsentHaltsPipeline ==
    (uploaded_file # None /\ QuantityAbsent # {}) =>
        /\ QuantityAbsent \subseteq Range(missing_columns)
        /\ "MissingColumns" \in messages
        /\ "ReceiptsColumnsMissing" \notin messages
        /\ ran = {}
        /\ supplier_performance = <<>> /\ delayed_shipments = <<>>
        /\ receipts_vs_quantity = <<>> /\ metrics = NoMetrics

\* C6's case: a sheet that lacks the two quantity columns and nothing else
\* was uploaded, and no stage ran.
C6_Witness ==
    /\ uploaded_file # None
    /\ Absent = QuantityColumns
    /\ <<Supplier>> \in TrimmedSchema
    /\ ran = {}

\* The normalized form of a sheet.
NormalForm(file) ==
    Normalize([columns |-> StripColumns(file.columns),
               rows |-> ReadExcel(file).rows])

\* A sheet that passes schema validation and that the Normalizer can take.
Accepted(file) ==
    /\ \A c \in Range(required_columns) : c \in {Strip(n) : n \in file.columns}
    /\ file.rows = <<>> \/ \E i \in DOMAIN file.rows : file.rows[i][SalesOrderNo].k = "str"

====
